---- MODULE Spec2Model ----
(***************************************************************************)
(* Planar Laplace location-privacy mechanism                               *)
(* (src/planar_laplace_mechanism.py).                                      *)
(*                                                                         *)
(* Python floats are modelled as decimal floating-point numbers            *)
(* [k, m, e]: k = "fin" is the number m * 10^e (mantissa below 10^9),      *)
(* k = "nan" is NaN and k = "inf" is +/-infinity (sign in m).  NaN         *)
(* propagates through arithmetic and every ordered comparison with NaN is  *)
(* false, as in IEEE-754.                                                   *)
(***************************************************************************)
EXTENDS Integers, Sequences, FiniteSets, TLC

(* ------------------------------------------------------------------ *)
(* Floating-point numbers                                               *)
(* ------------------------------------------------------------------ *)

\* largest value of a 32-bit machine word
IntMax == 2 * (2^30 - 1) + 1

Abs(x) == IF x < 0 THEN -x ELSE x

Sign(x) == IF x < 0 THEN -1 ELSE IF x > 0 THEN 1 ELSE 0

\* integer quotient rounded toward zero
Quot(a, b) == Sign(a) * Sign(b) * (Abs(a) \div Abs(b))

NaN == [k |-> "nan", m |-> 0, e |-> 0]

Inf(s) == [k |-> "inf", m |-> s, e |-> 0]

RECURSIVE Norm(_, _)
Norm(m, e) ==
    IF m = 0 THEN [k |-> "fin", m |-> 0, e |-> 0]
    ELSE IF Abs(m) % 10 = 0 \/ Abs(m) >= 10^9 THEN Norm(Quot(m, 10), e + 1)
    ELSE [k |-> "fin", m |-> m, e |-> e]

\* the float m * 10^e
Fin(m, e) == Norm(m, e)

IsNaN(a) == a.k = "nan"

IsFinite(a) == a.k = "fin"

\* mantissa scaled up (exactly) until it has nine digits or the exponent reaches lo
RECURSIVE ScaleUp(_, _, _)
ScaleUp(m, e, lo) ==
    IF m = 0 \/ e <= lo \/ Abs(m) >= 10^8 THEN [m |-> m, e |-> e]
    ELSE ScaleUp(m * 10, e - 1, lo)

\* mantissa cut down (rounding toward zero) until the exponent reaches hi
RECURSIVE ScaleDown(_, _, _)
ScaleDown(m, e, hi) ==
    IF m = 0 \/ e >= hi THEN [m |-> m, e |-> hi]
    ELSE ScaleDown(Quot(m, 10), e + 1, hi)

FNeg(a) == IF a.k = "fin" THEN [a EXCEPT !.m = -a.m]
           ELSE IF a.k = "inf" THEN Inf(-a.m) ELSE NaN

FAdd(a, b) ==
    IF a.k # "fin" \/ b.k # "fin" THEN NaN
    ELSE IF a.m = 0 THEN b
    ELSE IF b.m = 0 THEN a
    ELSE LET hi == IF a.e >= b.e THEN a ELSE b
             lo == IF a.e >= b.e THEN b ELSE a
             h  == ScaleUp(hi.m, hi.e, lo.e)
             l  == ScaleDown(lo.m, lo.e, h.e)
         IN  Norm(h.m + l.m, h.e)

FSub(a, b) == FAdd(a, FNeg(b))

\* the two mantissas cut down until their product fits a machine word
RECURSIVE MulFit(_, _, _)
MulFit(ma, mb, e) ==
    IF ma = 0 \/ mb = 0 THEN Norm(0, 0)
    ELSE IF Abs(ma) <= IntMax \div Abs(mb) THEN Norm(ma * mb, e)
    ELSE IF Abs(ma) >= Abs(mb) THEN MulFit(Quot(ma, 10), mb, e + 1)
    ELSE MulFit(ma, Quot(mb, 10), e + 1)

FMul(a, b) ==
    IF a.k # "fin" \/ b.k # "fin" THEN NaN
    ELSE MulFit(a.m, b.m, a.e + b.e)

RECURSIVE CutTo(_, _, _)
CutTo(m, e, limit) ==
    IF Abs(m) < limit THEN [m |-> m, e |-> e]
    ELSE CutTo(Quot(m, 10), e + 1, limit)

\* a / b for b # 0 (the callers decide what a zero divisor does)
FDiv(a, b) ==
    IF a.k # "fin" \/ b.k # "fin" THEN NaN
    ELSE LET n == ScaleUp(a.m, a.e, a.e - 20)
             d == CutTo(b.m, b.e, 10^5)
         IN  Norm(Quot(n.m, d.m), n.e - d.e)

\* a < b; false whenever an operand is NaN
FLt(a, b) ==
    IF a.k = "nan" \/ b.k = "nan" THEN FALSE
    ELSE IF a.k = "inf" \/ b.k = "inf"
         THEN (IF a.k = "inf" THEN a.m ELSE 0) < (IF b.k = "inf" THEN b.m ELSE 0)
    ELSE FSub(a, b).m < 0

FGt(a, b) == FLt(b, a)

FLe(a, b) ==
    IF a.k = "nan" \/ b.k = "nan" THEN FALSE ELSE ~FLt(b, a)

(* ------------------------------------------------------------------ *)
(* State                                                                *)
(* ------------------------------------------------------------------ *)

VARIABLES
    pc,               \* where the program is
    epsilon,          \* the run's privacy budget
    call,             \* the latest call of add_privacy_noise_to_geographic_coordinate
    prev,             \* the call before it
    include_original, \* the writer process_privacy_dataset uses
    outDirExists,     \* whether the output directory exists
    entriesLeft,      \* directory entries not yet handled, the current one included
    linesLeft,        \* input lines the directory may still hold
    fileNo,           \* number of the file being processed (0: none yet)
    lines,            \* the lines of that file
    coordinates,      \* the coordinates read from it
    perturbed_coordinates, \* the perturbed coordinates collected so far
    draws,            \* the call that produced each perturbed coordinate
    outputs,          \* the output files written, in order
    error,            \* the exception that ended the run ("none": none)
    calls             \* calls made of the mechanism on its own

batchVars == <<include_original, outDirExists, entriesLeft, linesLeft, fileNo,
               lines, coordinates, perturbed_coordinates, draws, outputs, error>>

vars == <<pc, epsilon, call, prev, include_original, outDirExists, entriesLeft,
          linesLeft, fileNo, lines, coordinates, perturbed_coordinates, draws,
          outputs, error, calls>>

(* ------------------------------------------------------------------ *)
(* Library functions used by the mechanism                              *)
(* ------------------------------------------------------------------ *)

Zero == Fin(0, 0)

One == Fin(1, 0)

\* math.e
E == Fin(271828182, -8)

\* 2 * math.pi
TwoPi == Fin(628318530, -8)

\* meters per degree of latitude
MetersPerDegree == Fin(111320, 0)

\* the angles np.random.uniform(0, 2 * math.pi) is sampled at:
\* 0, atan(4/3) and pi + atan(3/4)
Theta0 == Zero

Theta1 == Fin(927295218, -9)

Theta2 == Fin(378509316, -8)

ThetaSamples == {Theta0, Theta1, Theta2}

\* math.sin and math.cos on the sampled angles
Sin(theta) ==
    CASE theta = Theta0 -> Zero
      [] theta = Theta1 -> Fin(8, -1)
      [] theta = Theta2 -> Fin(-6, -1)
      [] OTHER -> NaN

Cos(theta) ==
    CASE theta = Theta0 -> One
      [] theta = Theta1 -> Fin(6, -1)
      [] theta = Theta2 -> Fin(-8, -1)
      [] OTHER -> NaN

\* math.cos(math.radians(latitude)) on the sampled latitudes.  In double
\* precision radians(90) is not exactly pi/2 and its cosine is
\* 6.123e-17, not 0; the cosine of NaN is NaN.
CosOfLatitude(lat) ==
    CASE IsNaN(lat) -> NaN
      [] lat = Zero -> One
      [] lat = Fin(45, 0) \/ lat = Fin(-45, 0) -> Fin(707106781, -9)
      [] lat = Fin(60, 0) \/ lat = Fin(-60, 0) -> Fin(5, -1)
      [] lat = Fin(90, 0) \/ lat = Fin(-90, 0) -> Fin(6123, -20)
      [] OTHER -> NaN

\* the values random.random() is sampled at, all in [0, 1)
PSamples == {Zero, Fin(5, -1), Fin(875, -3)}

\* (p - 1) / math.e, the argument handed to the Lambert W function
LambertArg(p) == FDiv(FSub(p, One), E)

Complex(re, im) == [re |-> re, im |-> im]

\* scipy.special.lambertw(z, k=-1, tol=1e-8) on the sampled arguments, as the
\* set of results it may give: the root w <= -1 of w * exp(w) = z.  For
\* p = 0 the argument is the branch point -1/e, whose root is -1; Halley's
\* iteration, started at log(-z) = -1, divides by 2w + 2 = 0 there and ends
\* with nan + nanj.  Either result may come back.
LambertW(z) ==
    CASE z = LambertArg(Zero) ->
            {Complex(NaN, NaN), Complex(Fin(-1, 0), Zero)}
      [] z = LambertArg(Fin(5, -1)) -> {Complex(Fin(-267834699, -8), Zero)}
      [] z = LambertArg(Fin(875, -3)) -> {Complex(Fin(-460702353, -8), Zero)}
      [] OTHER -> {Complex(NaN, NaN)}

(* ------------------------------------------------------------------ *)
(* The mechanism                                                        *)
(* ------------------------------------------------------------------ *)

\* The sampler, with the draws theta and p and the Lambert W result w made
\* explicit.  -1 / epsilon is evaluated
\* first and raises ZeroDivisionError for epsilon = 0; only the real part
\* of w is used, whatever w is.
generate_isotropic_laplace_noise_offset(eps, p, theta, w) ==
    IF IsFinite(eps) /\ eps.m = 0
    THEN [status |-> "raised", exc |-> "ZeroDivisionError",
          r |-> NaN, theta |-> theta]
    ELSE [status |-> "returned", exc |-> "none",
          r |-> FMul(FDiv(Fin(-1, 0), eps), FAdd(w.re, One)),
          theta |-> theta]

MutClampedDegrees(lon, lat, r, theta) ==
    LET noise_lat_deg == FDiv(FMul(r, Sin(theta)), MetersPerDegree)
        noise_lon_deg == FDiv(FMul(r, Cos(theta)),
                              FMul(MetersPerDegree, CosOfLatitude(lat)))
        nlon == FAdd(lon, noise_lon_deg)
        nlat == FAdd(lat, noise_lat_deg)
    IN  [lon |-> IF FGt(nlon, Fin(180, 0)) THEN Fin(180, 0)
                 ELSE IF FLt(nlon, Fin(-180, 0)) THEN Fin(-180, 0) ELSE nlon,
         lat |-> IF FGt(nlat, Fin(90, 0)) THEN Fin(90, 0)
                 ELSE IF FLt(nlat, Fin(-90, 0)) THEN Fin(-90, 0) ELSE nlat]

MutHiddenDraw(lon, lat, r, theta) ==
    LET hidden == IF calls % 2 = 0 THEN Theta0 ELSE Theta2
        noise_lat_deg == FDiv(FMul(r, Sin(hidden)), MetersPerDegree)
        noise_lon_deg == FDiv(FMul(r, Cos(hidden)),
                              FMul(MetersPerDegree, CosOfLatitude(lat)))
    IN  [lon |-> FAdd(lon, noise_lon_deg), lat |-> FAdd(lat, noise_lat_deg)]

\* lines 17-19: the offset (r, theta) converted to degrees and added
OffsetToDegrees(lon, lat, r, theta) ==
    LET noise_lat_deg == FDiv(FMul(r, Sin(theta)), MetersPerDegree)
        noise_lon_deg == FDiv(FMul(r, Cos(theta)),
                              FMul(MetersPerDegree, CosOfLatitude(lat)))
    IN  [lon |-> FAdd(lon, noise_lon_deg), lat |-> FAdd(lat, noise_lat_deg)]

\* The record of one call add_privacy_noise_to_geographic_coordinate(longitude,
\* latitude, epsilon), with its draws
add_privacy_noise_to_geographic_coordinate(lon, lat, eps, p, theta, w) ==
    LET off == generate_isotropic_laplace_noise_offset(eps, p, theta, w)
        out == IF off.status = "returned"
               THEN OffsetToDegrees(lon, lat, off.r, off.theta)
               ELSE [lon |-> NaN, lat |-> NaN]
    IN  [status |-> off.status, exc |-> off.exc, eps |-> eps,
         lon |-> lon, lat |-> lat, p |-> p, theta |-> theta, w |-> w,
         r |-> off.r, out_lon |-> out.lon, out_lat |-> out.lat]

NoCall ==
    [status |-> "none", exc |-> "none", eps |-> Zero, lon |-> Zero,
     lat |-> Zero, p |-> Zero, theta |-> Zero, w |-> Complex(Zero, Zero),
     r |-> Zero, out_lon |-> Zero, out_lat |-> Zero]

\* privacy budgets: -0.01, 0, 0.01 (the one main() uses) and 0.5
EpsilonSamples == {Fin(-1, -2), Zero, Fin(1, -2), Fin(5, -1)}

\* coordinates handed to the mechanism, as (longitude, latitude)
CoordinateSamples ==
    {<<Zero, Zero>>, <<Fin(1205, -1), Fin(60, 0)>>, <<Fin(180, 0), Fin(90, 0)>>,
     <<Fin(-180, 0), Fin(-90, 0)>>}

(* ------------------------------------------------------------------ *)
(* Reading and writing coordinate files                                 *)
(* ------------------------------------------------------------------ *)

\* str.strip() on the fields that occur in the sampled lines
Strip(field) ==
    CASE field = " 20 " -> "20"
      [] field = "  " -> ""
      [] OTHER -> field

\* float(s) on the stripped fields: ok = FALSE is ValueError
ParseFloat(s) ==
    CASE s = "0" -> [ok |-> TRUE, val |-> Zero]
      [] s = "1" -> [ok |-> TRUE, val |-> One]
      [] s = "10.5" -> [ok |-> TRUE, val |-> Fin(105, -1)]
      [] s = "20" -> [ok |-> TRUE, val |-> Fin(20, 0)]
      [] s = "45" -> [ok |-> TRUE, val |-> Fin(45, 0)]
      [] s = "90" -> [ok |-> TRUE, val |-> Fin(90, 0)]
      [] s = "-90.5" -> [ok |-> TRUE, val |-> Fin(-905, -1)]
      [] s = "180" -> [ok |-> TRUE, val |-> Fin(180, 0)]
      [] s = "181" -> [ok |-> TRUE, val |-> Fin(181, 0)]
      [] s = "nan" -> [ok |-> TRUE, val |-> NaN]
      [] s = "inf" -> [ok |-> TRUE, val |-> Inf(1)]
      [] s = "-inf" -> [ok |-> TRUE, val |-> Inf(-1)]
      [] OTHER -> [ok |-> FALSE, val |-> NaN]

\* line 34: the range test that makes the reader skip a coordinate
OutOfRange(lon, lat) ==
    \/ FLt(lon, Fin(-180, 0))
    \/ FGt(lon, Fin(180, 0))
    \/ FLt(lat, Fin(-90, 0))
    \/ FGt(lat, Fin(90, 0))

\* lines 26-39 on one line, given as its fields line.split(","): the
\* coordinates the line adds to the list (none or one)
ReadLine(parts) ==
    IF Len(parts) # 2 \/ Strip(parts[1]) = "" \/ Strip(parts[2]) = ""
    THEN <<>>
    ELSE LET lon == ParseFloat(Strip(parts[1]))
             lat == ParseFloat(Strip(parts[2]))
         IN  IF ~lon.ok \/ ~lat.ok THEN <<>>
             ELSE IF OutOfRange(lon.val, lat.val) THEN <<>>
             ELSE << <<lon.val, lat.val>> >>

\* the coordinates read from a file, given as the lines
\* file.read().strip().splitlines() of its content
RECURSIVE read_geographic_coordinates(_)
read_geographic_coordinates(content) ==
    IF content = <<>> THEN <<>>
    ELSE ReadLine(Head(content)) \o read_geographic_coordinates(Tail(content))

Min(a, b) == IF a <= b THEN a ELSE b

\* the file written for the perturbed coordinates alone
write_geographic_coordinates(coords) ==
    [header |-> "Longitude,Latitude",
     rows |-> [i \in 1..Len(coords) |-> <<coords[i][1], coords[i][2]>>]]

\* the file written with the originals: zip pairs the two lists by position
\* and each row is (lat, lon, perturbed lat, perturbed lon)
write_geographic_coordinates_with_original(original, perturbed) ==
    [header |-> "Latitude,Longitude,Perturbed Latitude,Perturbed Longitude",
     rows |-> [i \in 1..Min(Len(original), Len(perturbed)) |->
                 <<original[i][2], original[i][1],
                   perturbed[i][2], perturbed[i][1]>>]]

(* ------------------------------------------------------------------ *)
(* Bounds and inputs                                                    *)
(* ------------------------------------------------------------------ *)

\* entries of the input directory
MaxEntries == 3

\* lines of input, over all the files of the directory
MaxLines == 3

\* calls of the mechanism on its own
MaxCalls == 2

\* lines of the files the reader is called on
ReaderLineSamples ==
    {<<"10.5", " 20 ">>, <<"180", "90">>, <<"nan", "45">>, <<"181", "0">>,
     <<"0", "-90.5">>, <<"inf", "0">>, <<"abc", "1">>, <<"7">>, <<"  ", "1">>,
     <<"1", "0", "1">>}

\* lines of the files of the input directory
LineSamples ==
    {<<"10.5", " 20 ">>, <<"180", "90">>, <<"181", "0">>, <<"abc", "1">>}

\* the draws (p, theta) of the sampler while a directory is processed
DrawSamples == {<<Fin(5, -1), Theta1>>, <<Fin(875, -3), Theta2>>}

\* the sequences over S of length at most n
SeqUpTo(S, n) == UNION {[1..k -> S] : k \in 0..n}

\* the state of the batch driver before it has done anything
BatchIdle ==
    /\ include_original = FALSE
    /\ outDirExists = FALSE
    /\ entriesLeft = 0
    /\ linesLeft = 0
    /\ fileNo = 0
    /\ lines = <<>>
    /\ coordinates = <<>>
    /\ perturbed_coordinates = <<>>
    /\ draws = <<>>
    /\ outputs = <<>>
    /\ error = "none"
    /\ calls = 0

(* ------------------------------------------------------------------ *)
(* The mechanism called on its own                                      *)
(* ------------------------------------------------------------------ *)

InitCore ==
    /\ pc = "core"
    /\ epsilon \in EpsilonSamples
    /\ call = NoCall
    /\ prev = NoCall
    /\ BatchIdle

CoreCall ==
    /\ pc = "core"
    /\ calls < MaxCalls
    /\ calls' = calls + 1
    /\ \E c \in CoordinateSamples, p \in PSamples, theta \in ThetaSamples :
         \E w \in LambertW(LambertArg(p)) :
            /\ call' = add_privacy_noise_to_geographic_coordinate(c[1], c[2], epsilon, p, theta, w)
            /\ prev' = call
    /\ UNCHANGED <<pc, epsilon>>
    /\ UNCHANGED batchVars

NextCore == CoreCall

SpecCore == InitCore /\ [][NextCore]_vars

(* ------------------------------------------------------------------ *)
(* The reader called on its own                                         *)
(* ------------------------------------------------------------------ *)

InitReader ==
    /\ pc = "reader"
    /\ epsilon = Fin(1, -2)
    /\ call = NoCall
    /\ prev = NoCall
    /\ BatchIdle

ReaderCall ==
    /\ pc = "reader"
    /\ pc' = "read"
    /\ \E content \in SeqUpTo(ReaderLineSamples, MaxLines) :
         /\ lines' = content
         /\ coordinates' = read_geographic_coordinates(content)
    /\ UNCHANGED <<epsilon, call, prev, include_original, outDirExists,
                   entriesLeft, linesLeft, fileNo, perturbed_coordinates,
                   draws, outputs, error, calls>>

NextReader == ReaderCall

SpecReader == InitReader /\ [][NextReader]_vars

(* ------------------------------------------------------------------ *)
(* process_privacy_dataset                                              *)
(* ------------------------------------------------------------------ *)

Init ==
    /\ pc = "start"
    /\ epsilon \in {Zero, Fin(1, -2)}
    /\ call = NoCall
    /\ prev = NoCall
    /\ include_original \in BOOLEAN
    /\ outDirExists \in BOOLEAN
    /\ entriesLeft \in 0..MaxEntries
    /\ linesLeft = MaxLines
    /\ fileNo = 0
    /\ lines = <<>>
    /\ coordinates = <<>>
    /\ perturbed_coordinates = <<>>
    /\ draws = <<>>
    /\ outputs = <<>>
    /\ error = "none"
    /\ calls = 0

\* lines 56-57: the output directory is created when missing
MakeOutputDirectory ==
    /\ pc = "start"
    /\ outDirExists' = TRUE
    /\ pc' = "listing"
    /\ UNCHANGED <<calls, epsilon, call, prev, include_original, entriesLeft,
                   linesLeft, fileNo, lines, coordinates,
                   perturbed_coordinates, draws, outputs, error>>

\* lines 60-61: an entry that is no file is skipped
SkipEntry ==
    /\ pc = "listing"
    /\ entriesLeft > 0
    /\ entriesLeft' = entriesLeft - 1
    /\ UNCHANGED <<calls, pc, epsilon, call, prev, include_original, outDirExists,
                   linesLeft, fileNo, lines, coordinates,
                   perturbed_coordinates, draws, outputs, error>>

\* lines 62-63: the next file is read
ReadFile ==
    /\ pc = "listing"
    /\ entriesLeft > 0
    /\ \E content \in SeqUpTo(LineSamples, linesLeft) :
         /\ lines' = content
         /\ coordinates' = read_geographic_coordinates(content)
         /\ linesLeft' = linesLeft - Len(content)
    /\ fileNo' = fileNo + 1
    /\ perturbed_coordinates' = <<>>
    /\ draws' = <<>>
    /\ pc' = "perturbing"
    /\ UNCHANGED <<calls, epsilon, call, prev, include_original, outDirExists,
                   entriesLeft, outputs, error>>

MutPerturbPrepend ==
    /\ pc = "perturbing"
    /\ Len(perturbed_coordinates) < Len(coordinates)
    /\ \E d \in DrawSamples :
         \E w \in LambertW(LambertArg(d[1])) :
            LET c == coordinates[Len(perturbed_coordinates) + 1]
                rec == add_privacy_noise_to_geographic_coordinate(c[1], c[2], epsilon, d[1], d[2], w)
            IN  IF rec.status = "raised"
                THEN /\ pc' = "aborted"
                     /\ error' = rec.exc
                     /\ UNCHANGED <<perturbed_coordinates, draws>>
                ELSE /\ perturbed_coordinates' =
                            <<<<rec.out_lon, rec.out_lat>>>> \o perturbed_coordinates
                     /\ draws' = Append(draws, rec)
                     /\ UNCHANGED <<pc, error>>
    /\ UNCHANGED <<calls, epsilon, call, prev, include_original, outDirExists,
                   entriesLeft, linesLeft, fileNo, lines, coordinates, outputs>>

MutPerturbSkipOnError ==
    /\ pc = "perturbing"
    /\ Len(perturbed_coordinates) < Len(coordinates)
    /\ \E d \in DrawSamples :
         \E w \in LambertW(LambertArg(d[1])) :
            LET c == coordinates[Len(perturbed_coordinates) + 1]
                rec == add_privacy_noise_to_geographic_coordinate(c[1], c[2], epsilon, d[1], d[2], w)
            IN  IF rec.status = "raised"
                THEN /\ pc' = "listing"
                     /\ entriesLeft' = entriesLeft - 1
                     /\ error' = rec.exc
                     /\ UNCHANGED <<perturbed_coordinates, draws>>
                ELSE /\ perturbed_coordinates' =
                            Append(perturbed_coordinates, <<rec.out_lon, rec.out_lat>>)
                     /\ draws' = Append(draws, rec)
                     /\ UNCHANGED <<pc, error, entriesLeft>>
    /\ UNCHANGED <<calls, epsilon, call, prev, include_original, outDirExists,
                   linesLeft, fileNo, lines, coordinates, outputs>>

\* lines 64-65: one turn of the loop; an exception of the call leaves
\* process_privacy_dataset
PerturbNext ==
    /\ pc = "perturbing"
    /\ Len(perturbed_coordinates) < Len(coordinates)
    /\ \E d \in DrawSamples :
         \E w \in LambertW(LambertArg(d[1])) :
            LET c == coordinates[Len(perturbed_coordinates) + 1]
                rec == add_privacy_noise_to_geographic_coordinate(c[1], c[2], epsilon, d[1], d[2], w)
            IN  IF rec.status = "raised"
                THEN /\ pc' = "aborted"
                     /\ error' = rec.exc
                     /\ UNCHANGED <<perturbed_coordinates, draws>>
                ELSE /\ perturbed_coordinates' =
                            Append(perturbed_coordinates, <<rec.out_lon, rec.out_lat>>)
                     /\ draws' = Append(draws, rec)
                     /\ UNCHANGED <<pc, error>>
    /\ UNCHANGED <<calls, epsilon, call, prev, include_original, outDirExists,
                   entriesLeft, linesLeft, fileNo, lines, coordinates, outputs>>

\* lines 66-73: the loop is over and the output file is written
WriteOutput ==
    /\ pc = "perturbing"
    /\ Len(perturbed_coordinates) = Len(coordinates)
    /\ outputs' = Append(outputs,
            [file |-> fileNo,
             data |-> IF include_original
                      THEN write_geographic_coordinates_with_original(coordinates, perturbed_coordinates)
                      ELSE write_geographic_coordinates(perturbed_coordinates)])
    /\ entriesLeft' = entriesLeft - 1
    /\ pc' = "listing"
    /\ UNCHANGED <<calls, epsilon, call, prev, include_original, outDirExists,
                   linesLeft, fileNo, lines, coordinates,
                   perturbed_coordinates, draws, error>>

\* the directory is exhausted
Finish ==
    /\ pc = "listing"
    /\ entriesLeft = 0
    /\ pc' = "done"
    /\ UNCHANGED <<calls, epsilon, call, prev, include_original, outDirExists,
                   entriesLeft, linesLeft, fileNo, lines, coordinates,
                   perturbed_coordinates, draws, outputs, error>>

Next ==
    \/ MakeOutputDirectory
    \/ SkipEntry
    \/ ReadFile
    \/ PerturbNext
    \/ WriteOutput
    \/ Finish

Spec == Init /\ [][Next]_vars

(* ------------------------------------------------------------------ *)
(* Properties                                                           *)
(* ------------------------------------------------------------------ *)

Called == call.status # "none"

InRange(lon, lat) ==
    /\ FLe(Fin(-180, 0), lon) /\ FLe(lon, Fin(180, 0))
    /\ FLe(Fin(-90, 0), lat) /\ FLe(lat, Fin(90, 0))

\* C1: a call with a privacy budget epsilon <= 0 ends in a reported error
\* and returns no offset and no perturbed coordinate.
C1_InvalidBudgetReported ==
    (Called /\ FLe(call.eps, Zero)) => call.status = "raised"

\* C2: for epsilon > 0 and every draw p in [0, 1), p = 0 included, the
\* sampler returns a finite radius r >= 0 and an angle in [0, 2 pi).
C2_RadiusFiniteNonNegative ==
    (Called /\ FGt(call.eps, Zero)) =>
        /\ call.status = "returned"
        /\ IsFinite(call.r)
        /\ FLe(Zero, call.r)
        /\ FLe(Zero, call.theta)
        /\ FLt(call.theta, TwoPi)

\* C3: perturbing a coordinate of latitude exactly 90 or -90 ends in a
\* reported error and returns no coordinate.
C3_PolarSingularityReported ==
    (Called /\ call.lat \in {Fin(90, 0), Fin(-90, 0)}) => call.status = "raised"

\* C4: the coordinate returned is exactly
\* (lon + r cos(theta) / (111320 cos(lat)), lat + r sin(theta) / 111320),
\* also when that lies outside [-180, 180] x [-90, 90]: nothing is clamped
\* or wrapped.
C4_ExactUnclampedSum ==
    call.status = "returned" =>
        /\ call.out_lon =
             FAdd(call.lon,
                  FDiv(FMul(call.r, Cos(call.theta)),
                       FMul(Fin(111320, 0), CosOfLatitude(call.lat))))
        /\ call.out_lat =
             FAdd(call.lat, FDiv(FMul(call.r, Sin(call.theta)), Fin(111320, 0)))

\* a call returned a coordinate east of 180 degrees and one north of 90
C4_Witness ==
    /\ call.status = "returned"
    /\ prev.status = "returned"
    /\ FGt(call.out_lon, Fin(180, 0))
    /\ IsFinite(call.out_lon)
    /\ FGt(prev.out_lat, Fin(90, 0))
    /\ FLe(prev.lat, Fin(90, 0))

C6_InversionFailureReported ==
    (Called /\ (IsNaN(call.w.re) \/ call.w.im # Zero)) => call.status = "raised"

\* C7: every coordinate read_geographic_coordinates returns has
\* -180 <= lon <= 180 and -90 <= lat <= 90.
C7_ReadCoordinatesInRange ==
    \A i \in 1..Len(coordinates) : InRange(coordinates[i][1], coordinates[i][2])

\* the output file of the file being processed has been written
CurrentWritten ==
    Len(outputs) > 0 /\ outputs[Len(outputs)].file = fileNo

\* C8: the i-th perturbed coordinate is the result of exactly one call, made
\* on the i-th coordinate read; once the loop is over there are as many
\* perturbed coordinates as coordinates, and the file written holds, row by
\* row, each coordinate with its own perturbed value.
C8_OrderPreservingOneToOne ==
    /\ Len(draws) = Len(perturbed_coordinates)
    /\ Len(perturbed_coordinates) <= Len(coordinates)
    /\ \A i \in 1..Len(perturbed_coordinates) :
          /\ draws[i].lon = coordinates[i][1]
          /\ draws[i].lat = coordinates[i][2]
          /\ perturbed_coordinates[i] = <<draws[i].out_lon, draws[i].out_lat>>
    /\ CurrentWritten =>
          LET rows == outputs[Len(outputs)].data.rows
          IN  /\ Len(perturbed_coordinates) = Len(coordinates)
              /\ DOMAIN rows = 1..Len(coordinates)
              /\ \A i \in 1..Len(coordinates) :
                    rows[i] = IF include_original
                              THEN <<coordinates[i][2], coordinates[i][1],
                                     draws[i].out_lat, draws[i].out_lon>>
                              ELSE <<draws[i].out_lon, draws[i].out_lat>>

\* a file of two different coordinates was written with the originals
C8_Witness ==
    /\ CurrentWritten
    /\ include_original
    /\ Len(coordinates) = 2
    /\ coordinates[1] # coordinates[2]
    /\ perturbed_coordinates[1] # perturbed_coordinates[2]
    /\ draws[1].p # draws[2].p

\* what C10 says of every state: a run ended by an exception has written
\* nothing for the file it was processing, and one file for each earlier one
C10_State ==
    /\ error # "none" => pc = "aborted"
    /\ pc = "aborted" =>
          /\ error # "none"
          /\ Len(outputs) = fileNo - 1
          /\ \A k \in 1..Len(outputs) : outputs[k].file = k

\* what C10 says of every step: an output file is written only once every
\* coordinate of its file is perturbed, and whole; a step that raises writes
\* nothing; after it no file is read or written; files written stay as they
\* are
C10_Step ==
    /\ outputs' # outputs =>
          /\ pc = "perturbing"
          /\ Len(perturbed_coordinates) = Len(coordinates)
          /\ Len(outputs') = Len(outputs) + 1
          /\ outputs'[Len(outputs')].file = fileNo
          /\ DOMAIN outputs'[Len(outputs')].data.rows = 1..Len(coordinates)
    /\ \A k \in 1..Len(outputs) :
          k <= Len(outputs') /\ outputs'[k] = outputs[k]
    /\ pc' = "aborted" => outputs' = outputs
    /\ pc = "aborted" =>
          /\ pc' = "aborted"
          /\ fileNo' = fileNo
          /\ entriesLeft' = entriesLeft

\* C10: all or nothing per file, and the first exception ends the run.
C10_AllOrNothing == [](C10_State) /\ [][C10_Step]_vars

\* a run was ended by the division by epsilon = 0 after it had written a
\* file, with entries of the directory still to come
C10_Witness ==
    /\ pc = "aborted"
    /\ error = "ZeroDivisionError"
    /\ Len(outputs) >= 1
    /\ entriesLeft >= 2

====
